---- MODULE Spec2Model ----
(***************************************************************************)
(* Model of Unit_Test_Report_generator.py: the UnitTestReportGenerator     *)
(* pipeline (run) and the line scan of _extract_function_names.            *)
(*                                                                         *)
(* Text is modelled at character level: a line is a sequence of one-       *)
(* character strings, a script file is a sequence of lines.  The external  *)
(* tool (clicast) and the operating system are opaque: every os.system     *)
(* call returns a status chosen nondeterministically, every copy, move,    *)
(* remove, mkdir and open may fail.  The console colour command of run()   *)
(* (os.system("color A") on Windows), whose result is discarded, is left   *)
(* out.                                                                    *)
(***************************************************************************)
EXTENDS Integers, Sequences, FiniteSets, TLC

VARIABLES
    pc,                     \* the method of main()/run() about to execute
    vcast_exists,           \* Path(self.vcast_path).exists()
    include_compound_tests, \* self.include_compound_tests
    environ,                \* the names set in os.environ
    dirs,                   \* the directories of DIRECTORIES that exist
    cwd,                    \* files of the working directory
    unit_tests_dir,         \* files in Unit_Tst/
    results_dir,            \* files in Results/
    function_names,         \* the list returned by _extract_function_names
    extracted,              \* _extract_function_names has returned its list
    idx,                    \* loop position in the method at pc
    trace,                  \* history: every call made to the outside, in order
    error,                  \* the exception that ended the run, or "none"
    exit_status             \* process exit status, meaningful when pc = "exited"

vars == <<pc, vcast_exists, include_compound_tests, environ, dirs, cwd,
          unit_tests_dir, results_dir, function_names, extracted, idx, trace,
          error, exit_status>>

---------------------------------------------------------------------------
(* Bounds of the model *)

\* longest script file built from BasicLines
MaxLines == 3

---------------------------------------------------------------------------
(* Text *)

UpperChars == <<"A","B","C","D","E","F","G","H","I","J","K","L","M",
                "N","O","P","Q","R","S","T","U","V","W","X","Y","Z">>

LowerChars == <<"a","b","c","d","e","f","g","h","i","j","k","l","m",
                "n","o","p","q","r","s","t","u","v","w","x","y","z">>

\* case folding of re.IGNORECASE on ASCII letters
LowerOf ==
    [c \in {UpperChars[i] : i \in DOMAIN UpperChars} |->
        LowerChars[CHOOSE i \in DOMAIN UpperChars : UpperChars[i] = c]]

Lower(c) == IF c \in DOMAIN LowerOf THEN LowerOf[c] ELSE c

\* the class \s (and \S, its complement)
IsSpace(c) == c \in {" ", "\t", "\n", "\r", "\f"}

\* the literal part of the pattern r'\s*-- Subprogram:\s*(\S+)'
Pattern == <<"-","-"," ","S","u","b","p","r","o","g","r","a","m",":">>

\* the literal matches s at position p, letters compared case-insensitively
LiteralAt(s, p) ==
    /\ p + Len(Pattern) - 1 <= Len(s)
    /\ \A k \in 1..Len(Pattern) : Lower(s[p + k - 1]) = Lower(Pattern[k])

\* greedy \s* from position q: the first position at or after q that holds
\* no white space (Len(s) + 1 when there is none)
SkipSpace(s, q) ==
    LET stops == {j \in q..Len(s) : ~IsSpace(s[j])}
    IN  IF stops = {} THEN Len(s) + 1
        ELSE CHOOSE j \in stops : \A k \in stops : j <= k

\* greedy \S+ from position q: the position after the run of non-space
RunEnd(s, q) ==
    LET stops == {j \in q..Len(s) : IsSpace(s[j])}
    IN  IF stops = {} THEN Len(s) + 1
        ELSE CHOOSE j \in stops : \A k \in stops : j <= k

\* group(1) of the pattern matched with its literal at position p; <<>> when
\* \S+ finds nothing there
GroupAt(s, p) ==
    LET q == SkipSpace(s, p + Len(Pattern))
    IN  SubSeq(s, q, RunEnd(s, q) - 1)

\* re.search(pattern, line, re.IGNORECASE): <<>> for None, else <<group(1)>>
\* of the leftmost match.  The leading \s* of the pattern may match nothing,
\* so the literal may start anywhere in the line.
ReSearch(line) ==
    LET hits == {p \in 1..Len(line) : LiteralAt(line, p) /\ GroupAt(line, p) # <<>>}
    IN  IF hits = {} THEN <<>>
        ELSE <<GroupAt(line, CHOOSE p \in hits : \A r \in hits : p <= r)>>

\* the loop of _extract_function_names over the lines of the working copy;
\* iterating a text file yields each line with its line terminator
RECURSIVE ScanLinesMutDedup(_, _, _)
ScanLinesMutDedup(lines, i, acc) ==
    IF i > Len(lines) THEN acc
    ELSE LET match == ReSearch(Append(lines[i], "\n"))
         IN  IF match # <<>> /\ ~\E k \in DOMAIN acc : acc[k] = match[1]
             THEN ScanLinesMutDedup(lines, i + 1, Append(acc, match[1]))
             ELSE ScanLinesMutDedup(lines, i + 1, acc)

RECURSIVE ScanLines(_, _, _)
ScanLines(lines, i, acc) ==
    IF i > Len(lines) THEN acc
    ELSE LET match == ReSearch(Append(lines[i], "\n"))
         IN  IF match # <<>>
             THEN ScanLines(lines, i + 1, Append(acc, match[1]))
             ELSE ScanLines(lines, i + 1, acc)

---------------------------------------------------------------------------
(* Script files the external tool may write *)

UpperOf ==
    [c \in {LowerChars[i] : i \in DOMAIN LowerChars} |->
        UpperChars[CHOOSE i \in DOMAIN LowerChars : LowerChars[i] = c]]

Upper(c) == IF c \in DOMAIN UpperOf THEN UpperOf[c] ELSE c

UpperPattern == [k \in DOMAIN Pattern |-> Upper(Pattern[k])]

\* "-- Subprogram: Bar"
LineBar == Pattern \o <<" ", "B", "a", "r">>

\* "  -- SUBPROGRAM: Foo"
LineFoo == <<" ", " ">> \o UpperPattern \o <<" ", "F", "o", "o">>

\* "text"
LineText == <<"t", "e", "x", "t">>

BasicLines == {LineBar, LineFoo, LineText}

\* lines of every shape around the marker: what precedes it, its case, what
\* separates it from the token, the token and what follows it
ShapedLines ==
    {pre \o mark \o sep \o tok :
        pre  \in {<<>>, <<" ">>, <<"x", " ">>},
        mark \in {Pattern, UpperPattern},
        sep  \in {<<>>, <<" ">>, <<"\t", " ">>},
        tok  \in {<<>>, <<"F", "o", "o">>, <<"F", "o", "o", " ", "z">>}}

ScriptFiles ==
    UNION {[1..n -> BasicLines] : n \in 0..MaxLines}
        \cup {<<l>> : l \in ShapedLines}

---------------------------------------------------------------------------
(* The pipeline *)

\* REPORT_TYPES has three entries, iterated in insertion order
NumReports == 3

\* os.system returns 0 on success and a non-zero status otherwise
ExitCodes == {0, 1}

\* one call to the outside: result 0 when it succeeded, non-zero when the
\* command returned a non-zero status or the call raised
Event(ev, kind, num, name, result) ==
    [ev |-> ev, kind |-> kind, num |-> num, name |-> name, result |-> result]

\* the order of the steps in main() and run()
AfterMutOrganizeEarly(step) ==
    CASE step = "main" -> "get_user_inputs"
      [] step = "get_user_inputs" -> "setup_environment"
      [] step = "setup_environment" -> "create_directory_structure"
      [] step = "create_directory_structure" -> "generate_main_test_script"
      [] step = "generate_main_test_script" -> "generate_reports"
      [] step = "generate_reports" -> "extract_function_names"
      [] step = "extract_function_names" -> "organize_results"
      [] step = "organize_results" -> "generate_individual_test_scripts"
      [] step = "generate_individual_test_scripts" -> "generate_compound_test_script"
      [] step = "generate_compound_test_script" -> "cleanup_temporary_files"
      [] step = "cleanup_temporary_files" -> "display_summary"
      [] OTHER -> "exited"

After(step) ==
    CASE step = "main" -> "get_user_inputs"
      [] step = "get_user_inputs" -> "setup_environment"
      [] step = "setup_environment" -> "create_directory_structure"
      [] step = "create_directory_structure" -> "generate_main_test_script"
      [] step = "generate_main_test_script" -> "generate_reports"
      [] step = "generate_reports" -> "extract_function_names"
      [] step = "extract_function_names" -> "generate_individual_test_scripts"
      [] step = "generate_individual_test_scripts" -> "generate_compound_test_script"
      [] step = "generate_compound_test_script" -> "organize_results"
      [] step = "organize_results" -> "cleanup_temporary_files"
      [] step = "cleanup_temporary_files" -> "display_summary"
      [] OTHER -> "exited"

\* the steps inside the try block of run()
RunSteps ==
    {"get_user_inputs", "setup_environment", "create_directory_structure",
     "generate_main_test_script", "generate_reports", "extract_function_names",
     "generate_individual_test_scripts", "generate_compound_test_script",
     "organize_results", "cleanup_temporary_files", "display_summary"}

\* the exit status the process ends with: every handler calls sys.exit(1),
\* a run that returns normally ends with status 0
StatusOfMutInterruptIgnored(err) ==
    IF err \in {"none", "KeyboardInterrupt"} THEN 0 ELSE 1

StatusOf(err) == IF err = "none" THEN 0 ELSE 1

\* _execute_command: a non-zero result ends the run
CommandAbortsMutNever(result) == FALSE

CommandAborts(result) == result # 0

\* the for loops advance by one element
NextIndexMutSkip(i) == i + 2

NextIndex(i) == i + 1

Init ==
    /\ pc = "main"
    /\ vcast_exists \in BOOLEAN
    /\ include_compound_tests = FALSE
    /\ environ = {}
    /\ dirs = {}
    /\ cwd = [master |-> <<>>, copy |-> <<>>, reports |-> {}, scripts |-> {},
              compound |-> FALSE]
    /\ unit_tests_dir = [scripts |-> {}, compound |-> FALSE]
    /\ results_dir = [master |-> FALSE, reports |-> {}]
    /\ function_names = <<>>
    /\ extracted = FALSE
    /\ idx = 1
    /\ trace = <<>>
    /\ error = "none"
    /\ exit_status = 0

\* the run ends with exception err, after the calls evs
Exit(err, evs) ==
    /\ pc' = "exited"
    /\ error' = err
    /\ exit_status' = StatusOf(err)
    /\ trace' = trace \o evs

\* the step at pc is over after the calls evs; the next step starts
Advance(evs) ==
    /\ pc' = After(pc)
    /\ idx' = 1
    /\ trace' = trace \o evs
    /\ UNCHANGED <<error, exit_status>>

\* the loop at pc goes on to its next element after the calls evs
Iterate(evs) ==
    /\ idx' = NextIndex(idx)
    /\ trace' = trace \o evs
    /\ UNCHANGED <<pc, error, exit_status>>

\* main(): the constructor checks the path of the tool
Main ==
    /\ pc = "main"
    /\ IF vcast_exists
       THEN Advance(<<Event("validate", "vcast", 0, <<>>, 0)>>)
       ELSE /\ Exit("ToolNotFound", <<Event("validate", "vcast", 0, <<>>, 1)>>)
            /\ UNCHANGED idx
    /\ UNCHANGED <<vcast_exists, include_compound_tests, environ, dirs,
                   cwd, unit_tests_dir, results_dir, function_names, extracted>>

\* KeyboardInterrupt raised anywhere inside the try block of run()
Interrupt ==
    /\ pc \in RunSteps
    /\ Exit("KeyboardInterrupt", <<Event("interrupt", pc, 0, <<>>, 1)>>)
    /\ UNCHANGED <<vcast_exists, include_compound_tests, environ, dirs,
                   cwd, unit_tests_dir, results_dir, function_names, extracted, idx>>

\* _get_user_inputs: both loops end with a valid answer, or input() raises
\* EOFError
GetUserInputs ==
    /\ pc = "get_user_inputs"
    /\ \/ \E answer \in BOOLEAN :
            /\ include_compound_tests' = answer
            /\ Advance(<<Event("input", "answers", 0, <<>>, 0)>>)
       \/ /\ Exit("EOFError", <<Event("input", "answers", 0, <<>>, 1)>>)
          /\ UNCHANGED <<include_compound_tests, idx>>
    /\ UNCHANGED <<vcast_exists, environ, dirs, cwd, unit_tests_dir,
                   results_dir, function_names, extracted>>

\* _setup_environment
SetupEnvironment ==
    /\ pc = "setup_environment"
    /\ environ' = {"Unit_name", "Environment_Name"}
    /\ Advance(<<>>)
    /\ UNCHANGED <<vcast_exists, include_compound_tests, dirs, cwd,
                   unit_tests_dir, results_dir, function_names, extracted>>

\* _create_directory_structure: mkdir of Unit_Tst, then of Results; a mkdir
\* that raises ends the run
CreateDirectoryStructure ==
    /\ pc = "create_directory_structure"
    /\ \/ /\ dirs' = {"Unit_Tst", "Results"}
          /\ Advance(<<Event("mkdir", "Unit_Tst", 1, <<>>, 0),
                       Event("mkdir", "Results", 2, <<>>, 0)>>)
       \/ /\ dirs' = {}
          /\ Exit("OSError", <<Event("mkdir", "Unit_Tst", 1, <<>>, 1)>>)
          /\ UNCHANGED idx
       \/ /\ dirs' = {"Unit_Tst"}
          /\ Exit("OSError", <<Event("mkdir", "Unit_Tst", 1, <<>>, 0),
                               Event("mkdir", "Results", 2, <<>>, 1)>>)
          /\ UNCHANGED idx
    /\ UNCHANGED <<vcast_exists, include_compound_tests, environ, cwd,
                   unit_tests_dir, results_dir, function_names, extracted>>

\* _generate_main_test_script: the command, then shutil.copy of the script
\* into Results/, which is not guarded: when it raises, the handler of run()
\* ends the run.  The tool writes the script, or returns 0 without writing it.
GenerateMainTestScript ==
    /\ pc = "generate_main_test_script"
    /\ \E rc \in ExitCodes :
         LET cmd == Event("command", "main", 0, <<>>, rc)
         IN  IF CommandAborts(rc)
             THEN /\ Exit("CommandFailed", <<cmd>>)
                  /\ UNCHANGED <<cwd, results_dir, idx>>
             ELSE \E written \in {<<>>} \cup {<<f>> : f \in ScriptFiles}, ok \in BOOLEAN :
                    /\ cwd' = [cwd EXCEPT !.master = written]
                    /\ IF written # <<>> /\ ok
                       THEN /\ results_dir' = [results_dir EXCEPT !.master = TRUE]
                            /\ Advance(<<cmd, Event("copy", "master", 0, <<>>, 0)>>)
                       ELSE /\ Exit("CopyError",
                                    <<cmd, Event("copy", "master", 0, <<>>, 1)>>)
                            /\ UNCHANGED <<results_dir, idx>>
    /\ UNCHANGED <<vcast_exists, include_compound_tests, environ, dirs,
                   unit_tests_dir, function_names, extracted>>

\* _generate_reports: one command per entry of REPORT_TYPES.  What the tool
\* does to the working directory is its own business: it writes the report
\* and may remove the script it wrote before.
GenerateReports ==
    /\ pc = "generate_reports"
    /\ \/ /\ idx <= NumReports
          /\ \E rc \in ExitCodes :
               LET cmd == Event("command", "report", idx, <<>>, rc)
               IN  IF CommandAborts(rc)
                   THEN /\ Exit("CommandFailed", <<cmd>>)
                        /\ UNCHANGED <<cwd, idx>>
                   ELSE \E kept \in BOOLEAN :
                          /\ cwd' = [cwd EXCEPT !.reports = @ \cup {idx},
                                                !.master = IF kept THEN @ ELSE <<>>]
                          /\ Iterate(<<cmd>>)
       \/ /\ idx > NumReports
          /\ Advance(<<>>)
          /\ UNCHANGED cwd
    /\ UNCHANGED <<vcast_exists, include_compound_tests, environ, dirs,
                   unit_tests_dir, results_dir, function_names, extracted>>

\* the working directory after the source was read and written to the copy
WorkingCopyWrittenMutTruncatesSource(c, content) ==
    [c EXCEPT !.copy = <<content>>, !.master = <<<<>>>>]

WorkingCopyWritten(c, content) == [c EXCEPT !.copy = <<content>>]

\* the working directory after open(source_file) raised: the copy is opened
\* only inside the with block of the source
AfterSourceOpenFailsMutCopyFirst(c) == [c EXCEPT !.copy = <<<<>>>>]

AfterSourceOpenFails(c) == c

\* _extract_function_names.  kind names how the call ended:
\*   missing      open(source_file) raised FileNotFoundError
\*   open_source  open(source_file) raised another exception
\*   open_copy    open(copy_file, 'w') raised
\*   read         source.read() raised, the copy is left empty
\*   reread       reading the copy back raised
\*   ok           the list is returned
ExtractFunctionNames ==
    /\ pc = "extract_function_names"
    /\ \/ /\ cwd.master = <<>>
          /\ cwd' = AfterSourceOpenFails(cwd)
          /\ Exit("FileNotFoundError", <<Event("extract", "missing", 0, <<>>, 1)>>)
          /\ UNCHANGED <<function_names, extracted, idx>>
       \/ /\ cwd.master # <<>>
          /\ \E kind \in {"open_source", "open_copy"} :
               /\ cwd' = AfterSourceOpenFails(cwd)
               /\ Exit("Exception", <<Event("extract", kind, 0, <<>>, 1)>>)
          /\ UNCHANGED <<function_names, extracted, idx>>
       \/ /\ cwd.master # <<>>
          /\ cwd' = [cwd EXCEPT !.copy = <<<<>>>>]
          /\ Exit("Exception", <<Event("extract", "read", 0, <<>>, 1)>>)
          /\ UNCHANGED <<function_names, extracted, idx>>
       \/ /\ cwd.master # <<>>
          /\ cwd' = WorkingCopyWritten(cwd, cwd.master[1])
          /\ Exit("Exception", <<Event("extract", "reread", 0, <<>>, 1)>>)
          /\ UNCHANGED <<function_names, extracted, idx>>
       \/ /\ cwd.master # <<>>
          /\ cwd' = WorkingCopyWritten(cwd, cwd.master[1])
          /\ function_names' = ScanLines(cwd'.copy[1], 1, <<>>)
          /\ extracted' = TRUE
          /\ Advance(<<Event("extract", "ok", 0, <<>>, 0)>>)
    /\ UNCHANGED <<vcast_exists, include_compound_tests, environ, dirs,
                   unit_tests_dir, results_dir>>

\* _generate_individual_test_scripts: per name the command, then the move
\* into Unit_Tst/, which raises when that name is already there or for any
\* other reason; the loop goes on
GenerateIndividualTestScripts ==
    /\ pc = "generate_individual_test_scripts"
    /\ \/ /\ idx <= Len(function_names)
          /\ \E rc \in ExitCodes :
               LET name == function_names[idx]
                   cmd  == Event("command", "function", idx, name, rc)
               IN  IF CommandAborts(rc)
                   THEN /\ Exit("CommandFailed", <<cmd>>)
                        /\ UNCHANGED <<cwd, unit_tests_dir, idx>>
                   ELSE \E ok \in BOOLEAN :
                          LET moved == ok /\ name \notin unit_tests_dir.scripts
                          IN  /\ cwd' = [cwd EXCEPT !.scripts =
                                           IF moved THEN @ \ {name} ELSE @ \cup {name}]
                              /\ unit_tests_dir' =
                                    [unit_tests_dir EXCEPT !.scripts =
                                        IF moved THEN @ \cup {name} ELSE @]
                              /\ Iterate(<<cmd, Event("move", "script", idx, name,
                                                      IF moved THEN 0 ELSE 1)>>)
       \/ /\ idx > Len(function_names)
          /\ Advance(<<>>)
          /\ UNCHANGED <<cwd, unit_tests_dir>>
    /\ UNCHANGED <<vcast_exists, include_compound_tests, environ, dirs,
                   results_dir, function_names, extracted>>

\* _generate_compound_test_script
GenerateCompoundTestScript ==
    /\ pc = "generate_compound_test_script"
    /\ \/ /\ ~include_compound_tests
          /\ Advance(<<>>)
          /\ UNCHANGED <<cwd, unit_tests_dir>>
       \/ /\ include_compound_tests
          /\ \E rc \in ExitCodes :
               LET cmd == Event("command", "compound", 0, <<>>, rc)
               IN  IF CommandAborts(rc)
                   THEN /\ Exit("CommandFailed", <<cmd>>)
                        /\ UNCHANGED <<cwd, unit_tests_dir, idx>>
                   ELSE \E ok \in BOOLEAN :
                          /\ cwd' = [cwd EXCEPT !.compound = ~ok]
                          /\ unit_tests_dir' = [unit_tests_dir EXCEPT !.compound = ok]
                          /\ Advance(<<cmd, Event("move", "compound", 0, <<>>,
                                                  IF ok THEN 0 ELSE 1)>>)
    /\ UNCHANGED <<vcast_exists, include_compound_tests, environ, dirs,
                   results_dir, function_names, extracted>>

\* _organize_results: one guarded move per entry of REPORT_TYPES
OrganizeResults ==
    /\ pc = "organize_results"
    /\ \/ /\ idx <= NumReports
          /\ \E ok \in BOOLEAN :
               LET moved == ok /\ idx \in cwd.reports
               IN  /\ cwd' = [cwd EXCEPT !.reports = IF moved THEN @ \ {idx} ELSE @]
                   /\ results_dir' = [results_dir EXCEPT !.reports =
                                         IF moved THEN @ \cup {idx} ELSE @]
                   /\ Iterate(<<Event("move", "report", idx, <<>>,
                                      IF moved THEN 0 ELSE 1)>>)
       \/ /\ idx > NumReports
          /\ Advance(<<>>)
          /\ UNCHANGED <<cwd, results_dir>>
    /\ UNCHANGED <<vcast_exists, include_compound_tests, environ, dirs,
                   unit_tests_dir, function_names, extracted>>

\* os.remove of the one entry of temp_files
RemovedMutWrongFile(c) == [c EXCEPT !.master = <<>>]

Removed(c) == [c EXCEPT !.copy = <<>>]

\* _cleanup_temporary_files: the copy is removed when it exists; os.remove
\* may raise, which is only reported
CleanupTemporaryFiles ==
    /\ pc = "cleanup_temporary_files"
    /\ \/ /\ cwd.copy # <<>>
          /\ \/ /\ cwd' = Removed(cwd)
                /\ Advance(<<Event("remove", "copy", 0, <<>>, 0)>>)
             \/ /\ cwd' = cwd
                /\ Advance(<<Event("remove", "copy", 0, <<>>, 1)>>)
       \/ /\ cwd.copy = <<>>
          /\ cwd' = cwd
          /\ Advance(<<>>)
    /\ UNCHANGED <<vcast_exists, include_compound_tests, environ, dirs,
                   unit_tests_dir, results_dir, function_names, extracted>>

\* _display_summary, after which run() and main() return
DisplaySummary ==
    /\ pc = "display_summary"
    /\ Exit("none", <<Event("summary", "complete", Len(function_names), <<>>, 0)>>)
    /\ UNCHANGED <<vcast_exists, include_compound_tests, environ, dirs,
                   cwd, unit_tests_dir, results_dir, function_names, extracted, idx>>

Next ==
    \/ Main
    \/ Interrupt
    \/ GetUserInputs
    \/ SetupEnvironment
    \/ CreateDirectoryStructure
    \/ GenerateMainTestScript
    \/ GenerateReports
    \/ ExtractFunctionNames
    \/ GenerateIndividualTestScripts
    \/ GenerateCompoundTestScript
    \/ OrganizeResults
    \/ CleanupTemporaryFiles
    \/ DisplaySummary

Spec == Init /\ [][Next]_vars

---------------------------------------------------------------------------
(* Properties *)

\* the commands issued through _execute_command
IsCommand(e) == e.ev = "command"

IsFunctionCommand(e) == e.ev = "command" /\ e.kind = "function"

FunctionCommands == SelectSeq(trace, IsFunctionCommand)

\* what re.search finds in a line as the loop reads it
Found(line) == ReSearch(Append(line, "\n"))

\* _extract_function_names has just returned its list to run()
JustExtracted ==
    /\ extracted
    /\ pc = "generate_individual_test_scripts"
    /\ idx = 1
    /\ cwd.master # <<>>

NameBar == <<"B", "a", "r">>

NameFoo == <<"F", "o", "o">>

\* C1: the list returned by _extract_function_names has one entry per line of
\* the script in which the pattern is found, in the order of the lines: the
\* k-th entry is the name captured in the k-th such line, duplicates kept;
\* a script with no such line gives the empty list.
C1_NamesInFileOrder ==
    JustExtracted =>
        LET lines    == cwd.master[1]
            matching == {i \in DOMAIN lines : Found(lines[i]) # <<>>}
            rank(i)  == Cardinality({j \in matching : j <= i})
        IN  /\ Len(function_names) = Cardinality(matching)
            /\ \A i \in matching : function_names[rank(i)] = Found(lines[i])[1]

\* the script of the spec's example: Bar, then Foo, then Bar again
C1_Witness ==
    /\ JustExtracted
    /\ cwd.master = <<<<LineBar, LineFoo, LineBar>>>>
    /\ function_names = <<NameBar, NameFoo, NameBar>>

\* C2: a command of _execute_command that returned a non-zero status is the
\* last thing the run did: no command, copy, extraction, move, removal or
\* summary follows it, and the process has exited with a non-zero status.
C2_FailedCommandEndsRun ==
    \A k \in DOMAIN trace :
        (IsCommand(trace[k]) /\ trace[k].result # 0) =>
            /\ k = Len(trace)
            /\ pc = "exited"
            /\ exit_status # 0

\* the command for the second extracted name fails
C2_Witness ==
    /\ Len(trace) > 0
    /\ IsFunctionCommand(trace[Len(trace)])
    /\ trace[Len(trace)].num = 2
    /\ trace[Len(trace)].result # 0

\* C3: a copy or move that fails does not end the run.
C3_FileOperationFailureNeverAborts ==
    \A k \in DOMAIN trace :
        (trace[k].ev \in {"copy", "move"} /\ trace[k].result # 0 /\ k = Len(trace))
            => pc # "exited"

\* the calls whose failure the exit status has to show
IsFatal(e) ==
    \/ IsCommand(e) /\ e.result # 0
    \/ e.ev = "validate" /\ e.result # 0
    \/ e.ev = "extract" /\ e.kind \in {"missing", "open_source", "read"}
    \/ e.ev = "interrupt"

\* C4: a process that has exited has status 0 when every call it made
\* succeeded, and a non-zero status when a command failed, the tool was
\* missing, the script was missing or unreadable at extraction, or the user
\* interrupted the run.
C4_ExitStatus ==
    pc = "exited" =>
        /\ (\A k \in DOMAIN trace : trace[k].result = 0)
              => exit_status = 0
        /\ (\E k \in DOMAIN trace : IsFatal(trace[k])) => exit_status # 0

\* a run in which everything succeeded, for two names and the compound script
C4_Witness ==
    /\ pc = "exited"
    /\ exit_status = 0
    /\ include_compound_tests
    /\ Len(function_names) = 2
    /\ \A k \in DOMAIN trace : trace[k].result = 0

\* C5 as stated: extraction leaves the working directory as it was: when it
\* has returned its list, the files there and their contents are what they
\* were before the call.
C5_ExtractionOnlyReads ==
    [][(pc = "extract_function_names" /\ extracted') => cwd' = cwd]_vars

\* C5: extraction changes no file but the scratch copy: the script, the
\* reports, the other scripts of the working directory and the two output
\* directories are after it what they were before.
C5_ExtractionWritesOnlyCopy ==
    [][pc = "extract_function_names" =>
          /\ cwd'.master = cwd.master
          /\ cwd'.reports = cwd.reports
          /\ cwd'.scripts = cwd.scripts
          /\ cwd'.compound = cwd.compound
          /\ unit_tests_dir' = unit_tests_dir
          /\ results_dir' = results_dir
          /\ dirs' = dirs]_vars

\* extraction has just returned, the copy holds the text of the script
C5_Witness ==
    /\ JustExtracted
    /\ Len(cwd.master[1]) > 0
    /\ cwd.copy = cwd.master

\* C6: the per-function commands are issued one per entry of the extracted
\* list, in its order, none twice: the k-th command is for the k-th entry;
\* once the loop is over, and so in every run that ends with status 0, the
\* names of the commands issued are the extracted list.
C6_OneCommandPerName ==
    LET issued == FunctionCommands
    IN  /\ Len(issued) <= Len(function_names)
        /\ \A k \in DOMAIN issued :
              /\ issued[k].num = k
              /\ issued[k].name = function_names[k]
        /\ \/ pc \in {"generate_compound_test_script", "organize_results",
                      "cleanup_temporary_files", "display_summary"}
           \/ pc = "exited" /\ exit_status = 0
           => Len(issued) = Len(function_names)

\* a finished run for a list of three names, the first of them repeated
C6_Witness ==
    /\ pc = "exited"
    /\ exit_status = 0
    /\ Len(function_names) = 3
    /\ function_names[1] = function_names[3]
    /\ Len(FunctionCommands) = 3

\* the line shape of C7: white space only before the marker, white space
\* after it, then the token
ShapeFound(line) ==
    LET p == SkipSpace(line, 1)
        q == p + Len(Pattern)
    IN  IF /\ LiteralAt(line, p)
           /\ q <= Len(line)
           /\ IsSpace(line[q])
           /\ GroupAt(line, p) # <<>>
        THEN <<GroupAt(line, p)>>
        ELSE <<>>

RECURSIVE ShapeNames(_, _, _)
ShapeNames(lines, i, acc) ==
    IF i > Len(lines) THEN acc
    ELSE ShapeNames(lines, i + 1, acc \o ShapeFound(Append(lines[i], "\n")))

\* C7: a line gives a name exactly when it is optional white space, the
\* marker in any case, at least one white space and a token; the name is
\* that token: the list extracted is the list of the tokens of those lines.
C7_OnlyShapedLinesContribute ==
    JustExtracted =>
        function_names = ShapeNames(cwd.master[1], 1, <<>>)

\* C8: when extraction finds no script, it is the last thing the run does:
\* the process exits with a non-zero status on FileNotFoundError, no scratch
\* copy exists, no list was returned and no per-function command was issued.
C8_MissingScript ==
    \A k \in DOMAIN trace :
        (trace[k].ev = "extract" /\ trace[k].kind = "missing") =>
            /\ k = Len(trace)
            /\ pc = "exited"
            /\ exit_status # 0
            /\ error = "FileNotFoundError"
            /\ cwd.copy = <<>>
            /\ ~extracted
            /\ FunctionCommands = <<>>

\* extraction was called after the tool had removed the script
C8_Witness ==
    /\ Len(trace) > 0
    /\ trace[Len(trace)].ev = "extract"
    /\ trace[Len(trace)].kind = "missing"
    /\ results_dir.master

\* every command the run has to issue was issued and returned 0
AllCommandsSucceeded ==
    LET cmds == SelectSeq(trace, IsCommand)
        count(kind) == Cardinality({k \in DOMAIN cmds : cmds[k].kind = kind})
    IN  /\ \A k \in DOMAIN cmds : cmds[k].result = 0
        /\ count("main") = 1
        /\ count("report") = NumReports
        /\ extracted
        /\ count("function") = Len(function_names)
        /\ count("compound") = IF include_compound_tests THEN 1 ELSE 0

\* C9: a report is moved into Results/ only when every command of the run
\* has been issued and has succeeded; a run that a failing command ended has
\* moved none.
C9_ReportsMovedLast ==
    /\ (\/ results_dir.reports # {}
        \/ \E k \in DOMAIN trace : trace[k].ev = "move" /\ trace[k].kind = "report")
          => AllCommandsSucceeded
    /\ error = "CommandFailed" => results_dir.reports = {}

\* all three reports moved, after the commands for a name and the compound
C9_Witness ==
    /\ results_dir.reports = 1..NumReports
    /\ include_compound_tests
    /\ Len(function_names) > 0

RemoveFailed == \E k \in DOMAIN trace : trace[k].ev = "remove" /\ trace[k].result # 0

\* C10: when the process has exited with status 0 and os.remove did not
\* fail, the scratch copy is not in the working directory.
C10_CopyRemoved ==
    (pc = "exited" /\ exit_status = 0 /\ ~RemoveFailed) => cwd.copy = <<>>

\* the copy was made by extraction and removed by the cleanup
C10_Witness ==
    /\ pc = "exited"
    /\ exit_status = 0
    /\ extracted
    /\ \E k \in DOMAIN trace : trace[k].ev = "remove" /\ trace[k].result = 0

====
